---- MODULE Spec2Model ----
(***************************************************************************)
(* Model of the risk-probability computation path of app.py:               *)
(*   load_data            reads three pickle files and validates them,     *)
(*   predict_cancer_risk  feeds one feature vector to the classifier,      *)
(*   validate_input_range checks one value against a feature's range.      *)
(* and of the program around it: the page routing of the main logic and   *)
(* the questionnaire of display_risk_assessment.                          *)
(* Numbers are small naturals; a probability is an integer percentage.     *)
(***************************************************************************)
EXTENDS Integers, Sequences, FiniteSets, TLC

\* ------------------------------------------------------------------ bounds
MaxNames == 2        \* longest feature-name list stored in feature_names.pkl,
                     \* and longest feature vector a caller supplies
MaxValue == 1        \* feature values are drawn from 0..MaxValue

FeatureNameSet == {"a", "b"}
Values == 0..MaxValue

\* ------------------------------------------------------------- exceptions
\* An exception is its class, its message and the numbers formatted into
\* the message (none of the messages of app.py interpolates a number).
NoExc == [type |-> "None", msg |-> "", nums |-> << >>]

Exc(type, msg) == [type |-> type, msg |-> msg, nums |-> << >>]

\* --------------------------------------------------------------- the files
\* A file is missing, unreadable by pickle in one of three ways, or holds
\* a pickled object.
CorruptStates == {"garbled", "truncated", "badproto"}

\* pickle.load on a damaged file: UnpicklingError for an invalid opcode
\* stream, EOFError for an empty file, ValueError for an unsupported
\* protocol byte.
PickleError(st) ==
  CASE st = "garbled"   -> Exc("UnpicklingError", "invalid load key")
    [] st = "truncated" -> Exc("EOFError", "Ran out of input")
    [] st = "badproto"  -> Exc("ValueError", "unsupported pickle protocol")

\* with open(path, 'rb') as f: obj = pickle.load(f)
OpenAndLoad(blob) ==
  IF blob.st = "missing"
    THEN Exc("FileNotFoundError", "No such file or directory")
    ELSE IF blob.st \in CorruptStates THEN PickleError(blob.st) ELSE NoExc

\* The classifier objects a model file can hold.  Each stands for a fitted
\* RandomForestClassifier with a fixed behaviour, except "other", an object
\* of another class.
\*   const1    always label 1 with probabilities (20, 80)
\*   fitted2   fitted on two features: rejects any other width with
\*             ValueError; label 1 when the first exceeds the second
\*   probaerr  predict answers, predict_proba raises OverflowError
ForestIds == {"const1", "fitted2", "probaerr"}
ClassifierIds == ForestIds \cup {"other"}

NameLists == UNION {[1..n -> FeatureNameSet] : n \in 0..MaxNames}

\* the (min, max) tuples a range map holds; the last has min > max
RangePairs == {<<0, 0>>, <<1, 1>>, <<1, 0>>}

RangeDicts == UNION {[D -> RangePairs] : D \in SUBSET FeatureNameSet}

BadBlobStates == {"missing"} \cup CorruptStates

ModelBlobs ==
  {[st |-> s, obj |-> "other"] : s \in BadBlobStates}
    \cup {[st |-> "ok", obj |-> c] : c \in ClassifierIds}

\* type is the class of the pickled object: a list, or a tuple
NamesBlobs ==
  {[st |-> s, type |-> "list", val |-> << >>] : s \in BadBlobStates}
    \cup {[st |-> "ok", type |-> "list", val |-> l] : l \in NameLists}
    \cup {[st |-> "ok", type |-> "tuple", val |-> <<"a">>]}

\* type is the class of the pickled object: a dict, or a list
RangesBlobs ==
  {[st |-> s, type |-> "dict", val |-> << >>] : s \in BadBlobStates}
    \cup {[st |-> "ok", type |-> "dict", val |-> d] : d \in RangeDicts}
    \cup {[st |-> "ok", type |-> "list", val |-> << >>]}

\* ------------------------------------------------------------- load_data
\* not isinstance(model, RandomForestClassifier)
ModelInvalid(mb) == mb.obj \notin ForestIds

\* variant: only the class of the object is checked
NamesInvalid_anylist(nb) == nb.type # "list"

\* not isinstance(feature_names, list) or not feature_names
NamesInvalid(nb) == nb.type # "list" \/ Len(nb.val) = 0

\* variant: only the class of the object is checked
RangesInvalid_anydict(rb) == rb.type # "dict"

\* not isinstance(feature_ranges, dict) or not feature_ranges
RangesInvalid(rb) == rb.type # "dict" \/ DOMAIN rb.val = {}

\* The body of the try block: the three files are opened and unpickled in
\* order, then the three objects are validated in order.  The result is
\* the exception raised, or NoExc when the body reaches its return.
LoadBody(mb, nb, rb) ==
  IF OpenAndLoad(mb) # NoExc THEN OpenAndLoad(mb)
  ELSE IF OpenAndLoad(nb) # NoExc THEN OpenAndLoad(nb)
  ELSE IF OpenAndLoad(rb) # NoExc THEN OpenAndLoad(rb)
  ELSE IF ModelInvalid(mb)
    THEN Exc("ValueError", "Loaded model is not a RandomForestClassifier")
  ELSE IF NamesInvalid(nb)
    THEN Exc("ValueError", "Invalid or empty feature names")
  ELSE IF RangesInvalid(rb)
    THEN Exc("ValueError", "Invalid or empty feature ranges")
  ELSE NoExc

\* What the except clause that catches e shows before it re-raises.
LoadMessages(e) ==
  CASE e.type = "FileNotFoundError" ->
         << [fn |-> "error", text |-> "Required model file not found: ", e |-> e.msg],
            [fn |-> "info", text |-> "Please ensure all model files are present in the 'model' directory", e |-> ""] >>
    [] e.type = "UnpicklingError" ->
         << [fn |-> "error", text |-> "Error loading model files: ", e |-> e.msg],
            [fn |-> "info", text |-> "Model files may be corrupted or incompatible", e |-> ""] >>
    [] OTHER ->
         << [fn |-> "error", text |-> "Unexpected error loading model: ", e |-> e.msg] >>

NoArtifact ==
  [loaded |-> FALSE, model |-> "other", feature_names |-> << >>, feature_ranges |-> << >>]

\* load_data(): the tuple it returns, or the exception it re-raises.
load_data(mb, nb, rb) ==
  IF LoadBody(mb, nb, rb) = NoExc
    THEN [status |-> "returned", exc |-> NoExc, ui |-> << >>,
          value |-> [loaded |-> TRUE, model |-> mb.obj,
                     feature_names |-> nb.val, feature_ranges |-> rb.val]]
    ELSE [status |-> "raised", exc |-> LoadBody(mb, nb, rb),
          ui |-> LoadMessages(LoadBody(mb, nb, rb)), value |-> NoArtifact]

\* --------------------------------------------------------- the classifier
\* One answer per row of X.  A classifier call yields [exc, val].
RowLabel(clf, row) ==
  IF clf = "fitted2" THEN (IF row[1] > row[2] THEN 1 ELSE 0) ELSE 1

RowProba(clf, row) ==
  IF clf = "fitted2"
    THEN (IF row[1] > row[2] THEN <<30, 70>> ELSE <<90, 10>>)
    ELSE <<20, 80>>

\* The check of the input's width that a fitted estimator makes.
WidthError(clf, X) ==
  clf = "fitted2" /\ \E i \in 1..Len(X) : Len(X[i]) # 2

\* model.predict(X)
Predict(clf, X) ==
  IF WidthError(clf, X)
    THEN [exc |-> Exc("ValueError", "X has a different number of features than the classifier was fitted on"), val |-> << >>]
  ELSE [exc |-> NoExc, val |-> [i \in 1..Len(X) |-> RowLabel(clf, X[i])]]

\* model.predict_proba(X)
PredictProba(clf, X) ==
  IF WidthError(clf, X)
    THEN [exc |-> Exc("ValueError", "X has a different number of features than the classifier was fitted on"), val |-> << >>]
  ELSE IF clf = "probaerr"
    THEN [exc |-> Exc("OverflowError", "numeric overflow"), val |-> << >>]
  ELSE [exc |-> NoExc, val |-> [i \in 1..Len(X) |-> RowProba(clf, X[i])]]

\* --------------------------------------------------- predict_cancer_risk
\* variant: the message is formatted with the expected and the actual count
MismatchError_counts(features, feature_names) ==
  [type |-> "ValueError", msg |-> "Number of features doesn't match model requirements",
   nums |-> <<Len(feature_names), Len(features)>>]

\* raise ValueError("Number of features doesn't match model requirements")
MismatchError(features, feature_names) ==
  Exc("ValueError", "Number of features doesn't match model requirements")

\* variant: only a vector that is too short is rejected
CountMismatch_short(features, feature_names) == Len(features) < Len(feature_names)

\* len(features) != len(feature_names)
CountMismatch(features, feature_names) == Len(features) # Len(feature_names)

\* variant: reshape(-1, 1), one row per value
Reshape_columns(features) == [i \in 1..Len(features) |-> <<features[i]>>]

\* np.array(features).reshape(1, -1): one row holding the values in order
\* (features is not empty here: the length test comes first and load_data
\* returns no empty name list)
Reshape(features) == << features >>

\* variant: the handler shows the message and does not re-raise
PredictExcept_swallow(e, calls) ==
  [status |-> "returned", exc |-> NoExc, value |-> << >>, calls |-> calls,
   ui |-> << [fn |-> "error", text |-> "Error during prediction: ", e |-> e.msg] >>]

\* except Exception as e: st.error(...); raise
PredictExcept(e, calls) ==
  [status |-> "raised", exc |-> e, value |-> << >>, calls |-> calls,
   ui |-> << [fn |-> "error", text |-> "Error during prediction: ", e |-> e.msg] >>]

\* predict_cancer_risk(model, features, feature_names): the pair it
\* returns or the exception it re-raises, with the classifier calls made.
predict_cancer_risk(model, features, feature_names) ==
  LET X == Reshape(features)
      p == Predict(model, X)
      q == PredictProba(model, X)
      c1 == << [method |-> "predict", X |-> X] >>
      c2 == Append(c1, [method |-> "predict_proba", X |-> X])
  IN  IF CountMismatch(features, feature_names)
        THEN PredictExcept(MismatchError(features, feature_names), << >>)
      ELSE IF p.exc # NoExc THEN PredictExcept(p.exc, c1)
      ELSE IF q.exc # NoExc THEN PredictExcept(q.exc, c2)
      ELSE [status |-> "returned", exc |-> NoExc,
            value |-> <<p.val[1], q.val[1]>>, calls |-> c2, ui |-> << >>]

\* -------------------------------------------------- validate_input_range
\* variant: the comparisons are strict
validate_input_range_strict(value, feature_name, feature_ranges) ==
  IF feature_name \notin DOMAIN feature_ranges
    THEN TRUE
    ELSE feature_ranges[feature_name][1] < value
           /\ value < feature_ranges[feature_name][2]

\* variant: a feature without an entry is reported out of range
validate_input_range_closed(value, feature_name, feature_ranges) ==
  IF feature_name \notin DOMAIN feature_ranges
    THEN FALSE
    ELSE feature_ranges[feature_name][1] <= value
           /\ value <= feature_ranges[feature_name][2]

\* variant: only the upper bound is compared
validate_input_range_upper(value, feature_name, feature_ranges) ==
  IF feature_name \notin DOMAIN feature_ranges
    THEN TRUE
    ELSE value <= feature_ranges[feature_name][2]

validate_input_range(value, feature_name, feature_ranges) ==
  IF feature_name \notin DOMAIN feature_ranges
    THEN TRUE
    ELSE feature_ranges[feature_name][1] <= value
           /\ value <= feature_ranges[feature_name][2]

\* ------------------------------------------- display_risk_assessment
MinAge == 18
MaxAge == 100
DefaultAge == 25
AgeThreshold == 50

\* The ages tried on the slider: its ends, its default and both sides of
\* the threshold.
Ages == {MinAge, DefaultAge, AgeThreshold, AgeThreshold + 1, MaxAge}

\* An option that the code searches with `in` is the sequence of its words.
FamilyHistoryOptions ==
  { <<"No">>, <<"Yes", "-", "Mother">>, <<"Yes", "-", "Sister">>,
    <<"Yes", "-", "Multiple", "family", "members">> }

ExerciseOptions == {"Rarely", "1-2 times/month", "1-2 times/week", "3+ times/week"}

DietOptions == {"Poor", "Fair", "Good", "Excellent"}

PreviousBiopsiesOptions ==
  { <<"No">>, <<"Yes", "-", "Benign">>, <<"Yes", "-", "Abnormal">>, <<"Unsure">> }

RegularCheckupsOptions == {"Yes", "No", "Sometimes"}

\* word in option
Contains(option, word) == \E i \in 1..Len(option) : option[i] = word

\* if "Yes" in family_history: risk_factors += 2 if "Multiple" in family_history else 1
FamilyHistoryRisk(family_history) ==
  IF Contains(family_history, "Yes")
    THEN (IF Contains(family_history, "Multiple") THEN 2 ELSE 1)
    ELSE 0

\* The points counted from the six answers of a submitted form.
RiskFactors(age, family_history, exercise, diet, previous_biopsies, regular_checkups) ==
  (IF age > AgeThreshold THEN 1 ELSE 0)
    + FamilyHistoryRisk(family_history)
    + (IF exercise = "Rarely" THEN 1 ELSE 0)
    + (IF diet = "Poor" THEN 1 ELSE 0)
    + (IF Contains(previous_biopsies, "Yes") THEN 1 ELSE 0)
    + (IF regular_checkups = "No" THEN 1 ELSE 0)

\* variant: the limits are exclusive
RiskLevel_exclusive(risk_factors) ==
  IF risk_factors < 2 THEN "Low" ELSE IF risk_factors < 4 THEN "Moderate" ELSE "High"

\* "Low" if risk_factors <= 2 else "Moderate" if risk_factors <= 4 else "High"
RiskLevel(risk_factors) ==
  IF risk_factors <= 2 THEN "Low" ELSE IF risk_factors <= 4 THEN "Moderate" ELSE "High"

Pages == {"Home", "Risk Assessment", "Self-Examination Guide", "Risk Factors & Prevention"}

\* The session showing page: the widgets at their defaults, nothing assessed.
FreshPage(page) ==
  [page |-> page, event |-> "route",
   age |-> DefaultAge, family_history |-> <<"No">>, exercise |-> "Rarely",
   diet |-> "Poor", previous_biopsies |-> <<"No">>, regular_checkups |-> "Yes",
   risk_factors |-> -1, risk_level |-> "None"]

\* ------------------------------------------------------------------ state
VARIABLES
  modelBlob,    \* model/random_forest_model.pkl
  namesBlob,    \* model/feature_names.pkl
  rangesBlob,   \* model/feature_ranges.pkl
  artifact,     \* the tuple the caller holds from a successful load_data()
  out,          \* the last call: its arguments and what it returned or raised
  calls,        \* the classifier invocations the last call made
  ui,           \* the st.error / st.info messages the last call showed
  app,          \* the browser session: the page, the form and what it last showed
  thr           \* the calls in progress, one per thread, with their locals

vars == <<modelBlob, namesBlob, rangesBlob, artifact, out, calls, ui, app, thr>>

Threads == {1, 2}

\* A thread that runs no call; also the locals a call starts with.
Idle ==
  [pc |-> "idle", op |-> "none", input |-> << >>, features_array |-> << >>,
   prediction |-> -1, range |-> << >>,
   result |-> [status |-> "none", exc |-> NoExc, value |-> << >>]]

\* The vectors a caller supplies: shorter than, as long as and longer than
\* the feature-name lists.
FeatureVectors == UNION {[1..n -> Values] : n \in 0..MaxNames}

Init ==
  /\ modelBlob \in ModelBlobs
  /\ namesBlob \in NamesBlobs
  /\ rangesBlob \in RangesBlobs
  /\ artifact = NoArtifact
  /\ out = [op |-> "none", input |-> << >>, status |-> "none", exc |-> NoExc, value |-> << >>]
  /\ calls = << >>
  /\ ui = << >>
  /\ app = FreshPage("Home")
  /\ thr = [t \in Threads |-> Idle]

\* A caller runs load_data() on the three files.
LoadData ==
  LET r == load_data(modelBlob, namesBlob, rangesBlob)
  IN  /\ artifact' = IF r.status = "returned" THEN r.value ELSE artifact
      /\ out' = [op |-> "load_data", input |-> << >>, status |-> r.status,
                 exc |-> r.exc, value |-> r.value]
      /\ calls' = << >>
      /\ ui' = r.ui
      /\ UNCHANGED <<modelBlob, namesBlob, rangesBlob, app, thr>>

\* A caller scores the vector v against the loaded artifact.
PredictCancerRisk(v) ==
  /\ artifact.loaded
  /\ LET r == predict_cancer_risk(artifact.model, v, artifact.feature_names)
     IN  /\ out' = [op |-> "predict_cancer_risk", input |-> v, status |-> r.status,
                    exc |-> r.exc, value |-> r.value]
         /\ calls' = r.calls
         /\ ui' = r.ui
  /\ UNCHANGED <<modelBlob, namesBlob, rangesBlob, artifact, app, thr>>

\* variant: a feature without an entry gets one made of the value checked
ValidateInputRange_learn(value, name) ==
  /\ artifact.loaded
  /\ out' = [op |-> "validate_input_range", input |-> <<value, name>>,
             status |-> "returned", exc |-> NoExc,
             value |-> validate_input_range(value, name, artifact.feature_ranges)]
  /\ calls' = << >>
  /\ ui' = << >>
  /\ artifact' =
       [artifact EXCEPT !.feature_ranges =
          IF name \in DOMAIN @ THEN @ ELSE (name :> <<value, value>>) @@ @]
  /\ UNCHANGED <<modelBlob, namesBlob, rangesBlob, app, thr>>

\* A caller checks one value of the feature called name.
ValidateInputRange(value, name) ==
  /\ artifact.loaded
  /\ out' = [op |-> "validate_input_range", input |-> <<value, name>>,
             status |-> "returned", exc |-> NoExc,
             value |-> validate_input_range(value, name, artifact.feature_ranges)]
  /\ calls' = << >>
  /\ ui' = << >>
  /\ UNCHANGED <<modelBlob, namesBlob, rangesBlob, artifact, app, thr>>

\* A caller checks a vector of the right length, one validate_input_range
\* call per position, the value paired with the feature name at its place.
ValidateFeatures(v) ==
  /\ artifact.loaded
  /\ Len(v) = Len(artifact.feature_names)
  /\ out' = [op |-> "validate_features", input |-> v,
             status |-> "returned", exc |-> NoExc,
             value |-> [i \in 1..Len(v) |->
                          validate_input_range(v[i], artifact.feature_names[i],
                                               artifact.feature_ranges)]]
  /\ calls' = << >>
  /\ ui' = << >>
  /\ UNCHANGED <<modelBlob, namesBlob, rangesBlob, artifact, app, thr>>

Next ==
  \/ LoadData
  \/ \E v \in FeatureVectors : PredictCancerRisk(v)
  \/ \E value \in Values, name \in FeatureNameSet : ValidateInputRange(value, name)
  \/ \E v \in FeatureVectors : ValidateFeatures(v)

Spec == Init /\ [][Next]_vars

\* ------------------------------------------------- main application logic
\* What the script leaves untouched: it reads no model file and calls
\* none of load_data, predict_cancer_risk and validate_input_range.
service == <<modelBlob, namesBlob, rangesBlob, artifact, out, calls, ui, thr>>

\* The user picks another page in the sidebar: the script runs again and
\* routes to it; the form of the page left is gone.
SelectPage(page) ==
  /\ page # app.page
  /\ app' = FreshPage(page)
  /\ UNCHANGED service

\* The user moves a widget of the form: nothing runs until the form is
\* submitted, and what was shown stays.
OnForm == app.page = "Risk Assessment"

SetAge(age) ==
  /\ OnForm
  /\ app' = [app EXCEPT !.age = age, !.event = "edit"]
  /\ UNCHANGED service

SetFamilyHistory(option) ==
  /\ OnForm
  /\ app' = [app EXCEPT !.family_history = option, !.event = "edit"]
  /\ UNCHANGED service

SetExercise(option) ==
  /\ OnForm
  /\ app' = [app EXCEPT !.exercise = option, !.event = "edit"]
  /\ UNCHANGED service

SetDiet(option) ==
  /\ OnForm
  /\ app' = [app EXCEPT !.diet = option, !.event = "edit"]
  /\ UNCHANGED service

SetPreviousBiopsies(option) ==
  /\ OnForm
  /\ app' = [app EXCEPT !.previous_biopsies = option, !.event = "edit"]
  /\ UNCHANGED service

SetRegularCheckups(option) ==
  /\ OnForm
  /\ app' = [app EXCEPT !.regular_checkups = option, !.event = "edit"]
  /\ UNCHANGED service

\* The user presses "Assess My Risk": the script runs with submitted set,
\* counts the points of the six answers and shows the level.
SubmitAssessment ==
  /\ OnForm
  /\ LET risk_factors ==
           RiskFactors(app.age, app.family_history, app.exercise, app.diet,
                       app.previous_biopsies, app.regular_checkups)
     IN  app' = [app EXCEPT !.event = "submit",
                            !.risk_factors = risk_factors,
                            !.risk_level = RiskLevel(risk_factors)]
  /\ UNCHANGED service

AppNext ==
  \/ \E page \in Pages : SelectPage(page)
  \/ \E age \in Ages : SetAge(age)
  \/ \E option \in FamilyHistoryOptions : SetFamilyHistory(option)
  \/ \E option \in ExerciseOptions : SetExercise(option)
  \/ \E option \in DietOptions : SetDiet(option)
  \/ \E option \in PreviousBiopsiesOptions : SetPreviousBiopsies(option)
  \/ \E option \in RegularCheckupsOptions : SetRegularCheckups(option)
  \/ SubmitAssessment

\* The session starts on Home, with three valid files on disk and nothing
\* loaded from them.
AppInit ==
  /\ Init
  /\ modelBlob = [st |-> "ok", obj |-> "const1"]
  /\ namesBlob = [st |-> "ok", type |-> "list", val |-> <<"a">>]
  /\ rangesBlob.st = "ok" /\ rangesBlob.type = "dict" /\ DOMAIN rangesBlob.val = {"a"}

AppSpec == AppInit /\ [][AppNext]_vars

\* ------------------------------------------------------- concurrent calls
\* Two threads call predict_cancer_risk and validate_input_range on the
\* one loaded artifact.  A call advances one access to the artifact at a
\* time; its arguments and locals are its own.
shared == <<modelBlob, namesBlob, rangesBlob, artifact, out, calls, ui, app>>

Raised(e) == [status |-> "raised", exc |-> e, value |-> << >>]

Returned(value) == [status |-> "returned", exc |-> NoExc, value |-> value]

\* return or raise: the locals are gone, the caller holds the outcome
Finish(t, result) ==
  thr' = [thr EXCEPT ![t] = [Idle EXCEPT !.pc = "done", !.op = thr[t].op,
                                         !.input = thr[t].input, !.result = result]]

CallScorer(t, v) ==
  /\ thr[t].pc = "idle"
  /\ thr' = [thr EXCEPT ![t] = [Idle EXCEPT !.pc = "check",
                                           !.op = "predict_cancer_risk", !.input = v]]
  /\ UNCHANGED shared

CallValidator(t, value, name) ==
  /\ thr[t].pc = "idle"
  /\ thr' = [thr EXCEPT ![t] = [Idle EXCEPT !.pc = "lookup",
                                           !.op = "validate_input_range",
                                           !.input = <<value, name>>]]
  /\ UNCHANGED shared

\* variant: the array of a call in progress in another thread is reused
ScorerCheck_reuse(t) ==
  /\ thr[t].pc = "check"
  /\ IF CountMismatch(thr[t].input, artifact.feature_names)
       THEN Finish(t, Raised(MismatchError(thr[t].input, artifact.feature_names)))
       ELSE thr' = [thr EXCEPT ![t].pc = "predict",
                               ![t].features_array =
                                 IF \E u \in Threads \ {t} : thr[u].features_array # << >>
                                   THEN thr[CHOOSE u \in Threads \ {t} :
                                              thr[u].features_array # << >>].features_array
                                   ELSE Reshape(thr[t].input)]
  /\ UNCHANGED shared

\* the length test, then features_array = np.array(features).reshape(1, -1)
ScorerCheck(t) ==
  /\ thr[t].pc = "check"
  /\ IF CountMismatch(thr[t].input, artifact.feature_names)
       THEN Finish(t, Raised(MismatchError(thr[t].input, artifact.feature_names)))
       ELSE thr' = [thr EXCEPT ![t].pc = "predict",
                               ![t].features_array = Reshape(thr[t].input)]
  /\ UNCHANGED shared

\* variant: features_array is one module-level name, last written wins
FeaturesArray_shared(t) ==
  IF \E u \in Threads \ {t} : thr[u].features_array # << >>
    THEN thr[CHOOSE u \in Threads \ {t} : thr[u].features_array # << >>].features_array
    ELSE thr[t].features_array

\* features_array is a local of the call
FeaturesArray(t) == thr[t].features_array

\* prediction = model.predict(features_array)[0]
ScorerPredict(t) ==
  /\ thr[t].pc = "predict"
  /\ LET p == Predict(artifact.model, FeaturesArray(t))
     IN  IF p.exc # NoExc
           THEN Finish(t, Raised(p.exc))
           ELSE thr' = [thr EXCEPT ![t].pc = "proba", ![t].prediction = p.val[1]]
  /\ UNCHANGED shared

\* probability = model.predict_proba(features_array)[0]; return
ScorerProba(t) ==
  /\ thr[t].pc = "proba"
  /\ LET q == PredictProba(artifact.model, FeaturesArray(t))
     IN  IF q.exc # NoExc
           THEN Finish(t, Raised(q.exc))
           ELSE Finish(t, Returned(<<thr[t].prediction, q.val[1]>>))
  /\ UNCHANGED shared

\* if feature_name not in feature_ranges: return True
ValidatorLookup(t) ==
  /\ thr[t].pc = "lookup"
  /\ IF thr[t].input[2] \notin DOMAIN artifact.feature_ranges
       THEN Finish(t, Returned(TRUE))
       ELSE thr' = [thr EXCEPT ![t].pc = "compare",
                               ![t].range = artifact.feature_ranges[thr[t].input[2]]]
  /\ UNCHANGED shared

\* min_val, max_val = ...; return min_val <= value <= max_val
ValidatorCompare(t) ==
  /\ thr[t].pc = "compare"
  /\ Finish(t, Returned(thr[t].range[1] <= thr[t].input[1]
                          /\ thr[t].input[1] <= thr[t].range[2]))
  /\ UNCHANGED shared

\* The caller of a finished call keeps the thread for a later call.
Release(t) ==
  /\ thr[t].pc = "done"
  /\ thr' = [thr EXCEPT ![t] = Idle]
  /\ UNCHANGED shared

ConcNext ==
  \E t \in Threads :
    \/ \E v \in FeatureVectors : CallScorer(t, v)
    \/ \E value \in Values, name \in FeatureNameSet : CallValidator(t, value, name)
    \/ ScorerCheck(t)
    \/ ScorerPredict(t)
    \/ ScorerProba(t)
    \/ ValidatorLookup(t)
    \/ ValidatorCompare(t)
    \/ Release(t)

\* The process has loaded an artifact from three valid files; the feature
\* names are distinct and the range map has an entry for "a" and none
\* for "b".
ConcInit ==
  /\ modelBlob \in ModelBlobs
  /\ namesBlob \in NamesBlobs
  /\ rangesBlob \in RangesBlobs
  /\ rangesBlob.st = "ok" /\ rangesBlob.type = "dict" /\ DOMAIN rangesBlob.val = {"a"}
  /\ \A i, j \in 1..Len(namesBlob.val) : i # j => namesBlob.val[i] # namesBlob.val[j]
  /\ load_data(modelBlob, namesBlob, rangesBlob).status = "returned"
  /\ artifact = load_data(modelBlob, namesBlob, rangesBlob).value
  /\ out = [op |-> "load_data", input |-> << >>, status |-> "returned",
            exc |-> NoExc, value |-> artifact]
  /\ calls = << >>
  /\ ui = << >>
  /\ app = FreshPage("Home")
  /\ thr = [t \in Threads |-> Idle]

ConcSpec == ConcInit /\ [][ConcNext]_vars

\* ================================================================ claims
Scored == out.op = "predict_cancer_risk"

WrongLength == Len(out.input) # Len(artifact.feature_names)

\* C1: a vector whose length differs from len(feature_names) makes
\* predict_cancer_risk raise the count-mismatch ValueError: nothing is
\* returned and the classifier is not invoked, on the whole vector or on
\* a truncated or padded one.
C1_MismatchRejected ==
  (Scored /\ WrongLength) =>
    /\ out.status = "raised"
    /\ out.exc.type = "ValueError"
    /\ out.value = << >>
    /\ calls = << >>

C1_Witness ==
  /\ Scored
  /\ Len(out.input) > Len(artifact.feature_names)
  /\ out.status = "raised"
  /\ artifact.model = "const1"

Checked == out.op = "validate_input_range"

HasRange == out.input[2] \in DOMAIN artifact.feature_ranges

RangeOf(name) == artifact.feature_ranges[name]

\* C2: the bounds are inclusive.  For a feature that has an entry, the
\* answer is True exactly when min <= value <= max, so a value equal to
\* the min or to the max of an entry with min <= max is in range.
C2_InclusiveBounds ==
  (Checked /\ HasRange) =>
    LET min_val == RangeOf(out.input[2])[1]
        max_val == RangeOf(out.input[2])[2]
        value == out.input[1]
    IN  /\ out.value = TRUE <=> (min_val <= value /\ value <= max_val)
        /\ (min_val <= max_val /\ value \in {min_val, max_val}) => out.value = TRUE

C2_Witness ==
  /\ Checked
  /\ HasRange
  /\ RangeOf(out.input[2]) = <<1, 1>>
  /\ out.input[1] = 1
  /\ out.value = TRUE

\* C3: a feature without an entry in feature_ranges is not checked: every
\* value is in range for it.
C3_AbsentUnchecked ==
  /\ (Checked /\ ~HasRange) => out.value = TRUE
  /\ out.op = "validate_features" =>
       \A i \in 1..Len(out.input) :
         artifact.feature_names[i] \notin DOMAIN artifact.feature_ranges
           => out.value[i] = TRUE

C3_Witness ==
  /\ Checked
  /\ ~HasRange
  /\ out.input[1] = MaxValue
  /\ out.value = TRUE

\* The names at the flagged positions, in order.
RECURSIVE NamesWhere(_, _, _)
NamesWhere(names, flags, i) ==
  IF i > Len(names) THEN << >>
  ELSE (IF flags[i] THEN <<names[i]>> ELSE << >>) \o NamesWhere(names, flags, i + 1)

\* The value at position i lies outside the range stored for its feature.
OutsideAt(i) ==
  /\ artifact.feature_names[i] \in DOMAIN artifact.feature_ranges
  /\ \/ out.input[i] < RangeOf(artifact.feature_names[i])[1]
     \/ out.input[i] > RangeOf(artifact.feature_names[i])[2]

C5_CountsReported ==
  (Scored /\ WrongLength) =>
    /\ \E i \in DOMAIN out.exc.nums : out.exc.nums[i] = Len(artifact.feature_names)
    /\ \E i \in DOMAIN out.exc.nums : out.exc.nums[i] = Len(out.input)

\* C5 amended: the count-mismatch failure is a ValueError with the fixed
\* message "Number of features doesn't match model requirements", shown
\* through st.error; it carries neither the expected nor the actual count.
C5_FixedMessage ==
  (Scored /\ WrongLength) =>
    /\ out.exc.type = "ValueError"
    /\ out.exc.msg = "Number of features doesn't match model requirements"
    /\ out.exc.nums = << >>
    /\ ui = << [fn |-> "error", text |-> "Error during prediction: ",
                e |-> "Number of features doesn't match model requirements"] >>

\* names of length 2 and input [1]
C5_Witness ==
  /\ Scored
  /\ Len(artifact.feature_names) = 2
  /\ out.input = <<1>>
  /\ out.status = "raised"

Loaded == out.op = "load_data"

SomeMissing == modelBlob.st = "missing" \/ namesBlob.st = "missing" \/ rangesBlob.st = "missing"

SomeCorrupt ==
  modelBlob.st \in CorruptStates \/ namesBlob.st \in CorruptStates
    \/ rangesBlob.st \in CorruptStates

AllDeserialize == modelBlob.st = "ok" /\ namesBlob.st = "ok" /\ rangesBlob.st = "ok"

\* C6 as stated: a failing load_data reports one of three kinds, and the
\* kind names the cause: FileNotFoundError only when a file is missing,
\* UnpicklingError only when a file fails to deserialize, ValueError only
\* when all three deserialize and a semantic check fails.
C6_FailureKindsDistinct ==
  (Loaded /\ out.status = "raised") =>
    /\ out.exc.type \in {"FileNotFoundError", "UnpicklingError", "ValueError"}
    /\ out.exc.type = "FileNotFoundError" => SomeMissing
    /\ out.exc.type = "UnpicklingError" => SomeCorrupt
    /\ out.exc.type = "ValueError" => AllDeserialize

\* C7: when the three files deserialize and the feature-name list is
\* empty, load_data raises ValueError; an artifact it returns never has
\* zero feature names.
C7_EmptyNamesRejected ==
  /\ (Loaded /\ AllDeserialize /\ Len(namesBlob.val) = 0) =>
       (out.status = "raised" /\ out.exc.type = "ValueError")
  /\ (Loaded /\ out.status = "returned") => Len(out.value.feature_names) >= 1
  /\ artifact.loaded => Len(artifact.feature_names) >= 1

C7_Witness ==
  /\ Loaded
  /\ AllDeserialize
  /\ modelBlob.obj = "const1"
  /\ namesBlob.type = "list"
  /\ namesBlob.val = << >>
  /\ out.status = "raised"
  /\ out.exc.msg = "Invalid or empty feature names"

PairwiseDistinct(seq) ==
  \A i, j \in 1..Len(seq) : i # j => seq[i] # seq[j]

\* C8 as stated: an artifact load_data returns has a non-empty list of
\* pairwise distinct feature names and a non-empty range map whose every
\* value has min <= max.
C8_WellFormed ==
  (Loaded /\ out.status = "returned") =>
    /\ Len(out.value.feature_names) >= 1
    /\ PairwiseDistinct(out.value.feature_names)
    /\ DOMAIN out.value.feature_ranges # {}
    /\ \A k \in DOMAIN out.value.feature_ranges :
         out.value.feature_ranges[k][1] <= out.value.feature_ranges[k][2]

\* C8 amended: an artifact load_data returns has a RandomForestClassifier,
\* a non-empty list of feature names and a non-empty dict of ranges; files
\* that deserialize to an empty or non-dict range map, or to an empty or
\* non-list name object, are rejected with ValueError.  Names may repeat
\* and a range may have min > max.
C8_NonEmptyParts ==
  /\ (Loaded /\ out.status = "returned") =>
       /\ out.value.model \in ForestIds
       /\ namesBlob.type = "list" /\ Len(out.value.feature_names) >= 1
       /\ rangesBlob.type = "dict" /\ DOMAIN out.value.feature_ranges # {}
  /\ (Loaded /\ AllDeserialize
        /\ (rangesBlob.type # "dict" \/ DOMAIN rangesBlob.val = {}
              \/ namesBlob.type # "list" \/ Len(namesBlob.val) = 0)) =>
       (out.status = "raised" /\ out.exc.type = "ValueError")

\* a returned artifact with a repeated name and an inverted range
C8_Witness ==
  /\ Loaded
  /\ out.status = "returned"
  /\ out.value.feature_names = <<"a", "a">>
  /\ DOMAIN out.value.feature_ranges = {"a"}
  /\ out.value.feature_ranges["a"] = <<1, 0>>

\* The exception the classifier raises on the one-row sample of the
\* scored vector, NoExc when both of its methods answer.
ClassifierExc ==
  IF Predict(artifact.model, <<out.input>>).exc # NoExc
    THEN Predict(artifact.model, <<out.input>>).exc
    ELSE PredictProba(artifact.model, <<out.input>>).exc

ClassifierFailed == Scored /\ ~WrongLength /\ ClassifierExc # NoExc

\* C9 as stated: a failure of the classifier on a vector of the right
\* length reaches the caller as the one kind PredictionFailure, which is
\* not the kind of the count mismatch, and no result is returned.
C9_SingleKind ==
  ClassifierFailed =>
    /\ out.status = "raised"
    /\ out.value = << >>
    /\ out.exc.type = "PredictionFailure"
    /\ out.exc.type # "ValueError"

\* C9 amended: a failure of the classifier on a vector of the right length
\* is shown through st.error and re-raised to the caller unchanged, with
\* the class and message the classifier raised; it is never swallowed and
\* never becomes a returned result.  It is not wrapped, so a ValueError
\* from the classifier has the same class as the count mismatch.
C9_Reraised ==
  ClassifierFailed =>
    /\ out.status = "raised"
    /\ out.value = << >>
    /\ out.exc = ClassifierExc
    /\ ui = << [fn |-> "error", text |-> "Error during prediction: ",
                e |-> ClassifierExc.msg] >>

\* a classifier ValueError on a vector of the right length
C9_Witness ==
  /\ ClassifierFailed
  /\ artifact.model = "fitted2"
  /\ Len(out.input) = 1
  /\ out.status = "raised"
  /\ out.exc.type = "ValueError"

\* C10: a vector of the right length is presented to the classifier as one
\* sample holding the values in the supplied order, and the pair returned
\* is the classifier's label and probabilities for that sample.
C10_OneSamplePassedThrough ==
  (Scored /\ ~WrongLength) =>
    /\ Len(calls) >= 1
    /\ \A i \in 1..Len(calls) : calls[i].X = <<out.input>>
    /\ calls[1].method = "predict"
    /\ out.status = "returned" =>
         /\ Len(calls) = 2
         /\ calls[2].method = "predict_proba"
         /\ out.value = <<RowLabel(artifact.model, out.input),
                          RowProba(artifact.model, out.input)>>
         /\ artifact.model = "const1" => out.value = <<1, <<20, 80>>>>
         /\ (artifact.model = "fitted2" /\ out.input = <<1, 0>>) => out.value = <<1, <<30, 70>>>>
         /\ (artifact.model = "fitted2" /\ out.input = <<0, 1>>) => out.value = <<0, <<90, 10>>>>

\* the stub that always answers label 1 and (20, 80), on two features
C10_Witness ==
  /\ Scored
  /\ artifact.model = "const1"
  /\ out.input = <<0, 1>>
  /\ out.status = "returned"
  /\ out.value = <<1, <<20, 80>>>>

\* C11: a call of validate_input_range or predict_cancer_risk, failed ones
\* included, leaves the loaded artifact (classifier, feature_names,
\* feature_ranges) as load_data returned it.
C11_ArtifactReadOnly ==
  [][(artifact.loaded
        /\ out'.op \in {"predict_cancer_risk", "validate_input_range", "validate_features"})
       => artifact' = artifact]_vars

\* after a prediction failure the artifact is the one loaded from the files
C11_Witness ==
  /\ ClassifierFailed
  /\ out.status = "raised"
  /\ artifact = load_data(modelBlob, namesBlob, rangesBlob).value

\* C12 as stated: the Loader has run and completed by the time the program
\* serves an assessment request, which consumes the loaded artifact.
C12_LoadedBeforeAssessment ==
  app.event = "submit" => (artifact.loaded /\ artifact # NoArtifact)

Submitted == app.event = "submit"

\* The points the six answers are worth, option by option.
AnswerPoints ==
  (IF app.age > 50 THEN 1 ELSE 0)
    + (CASE app.family_history = <<"Yes", "-", "Multiple", "family", "members">> -> 2
         [] app.family_history \in {<<"Yes", "-", "Mother">>, <<"Yes", "-", "Sister">>} -> 1
         [] OTHER -> 0)
    + (IF app.exercise = "Rarely" THEN 1 ELSE 0)
    + (IF app.diet = "Poor" THEN 1 ELSE 0)
    + (IF app.previous_biopsies \in {<<"Yes", "-", "Benign">>, <<"Yes", "-", "Abnormal">>}
         THEN 1 ELSE 0)
    + (IF app.regular_checkups = "No" THEN 1 ELSE 0)

\* C15: for every combination of the six submitted answers the total is
\* the sum of the listed points, an integer in 0..7, and the level shown is
\* Low exactly for a total <= 2, Moderate exactly for 3 or 4 and High
\* exactly for a total >= 5.
C15_QuestionnaireScore ==
  Submitted =>
    /\ app.risk_factors = AnswerPoints
    /\ app.risk_factors \in 0..7
    /\ app.risk_level = "Low" <=> app.risk_factors <= 2
    /\ app.risk_level = "Moderate" <=> app.risk_factors \in {3, 4}
    /\ app.risk_level = "High" <=> app.risk_factors >= 5

\* two points, from an age of 51 and one family member: still Low
C15_Witness ==
  /\ Submitted
  /\ app.age = 51
  /\ app.family_history = <<"Yes", "-", "Sister">>
  /\ app.risk_factors = 2
  /\ app.risk_level = "Low"

\* What the call that thread t has finished returns or raises when it runs
\* alone, start to end, on the same arguments.
Alone(t) ==
  IF thr[t].op = "predict_cancer_risk"
    THEN LET r == predict_cancer_risk(artifact.model, thr[t].input, artifact.feature_names)
         IN  [status |-> r.status, exc |-> r.exc, value |-> r.value]
    ELSE [status |-> "returned", exc |-> NoExc,
          value |-> validate_input_range(thr[t].input[1], thr[t].input[2],
                                         artifact.feature_ranges)]

\* C13: under every interleaving of the calls of two threads on the one
\* loaded artifact, a finished call has the outcome (result or failure) it
\* has when run alone; the other thread's vector plays no part.
C13_SameAsAlone ==
  \A t \in Threads : thr[t].pc = "done" => thr[t].result = Alone(t)

\* one call has returned label 1 while a call on another vector, whose
\* label is 0, is between its two classifier invocations
C13_Witness ==
  /\ artifact.model = "fitted2"
  /\ thr[1].pc = "done"
  /\ thr[1].op = "predict_cancer_risk"
  /\ thr[1].input = <<1, 0>>
  /\ thr[1].result.value = <<1, <<30, 70>>>>
  /\ thr[2].pc = "proba"
  /\ thr[2].input = <<0, 1>>
  /\ thr[2].prediction = 0

\* C14: two predict_cancer_risk calls with the same vector on the same
\* artifact end alike, with the same label and probabilities or the same
\* failure, whatever other calls ran before, between or beside them.
C14_SameVectorSameResult ==
  \A t, u \in Threads :
    (/\ thr[t].pc = "done" /\ thr[u].pc = "done"
     /\ thr[t].op = "predict_cancer_risk" /\ thr[u].op = "predict_cancer_risk"
     /\ thr[t].input = thr[u].input)
      => thr[t].result = thr[u].result

C14_Witness ==
  /\ artifact.model = "fitted2"
  /\ \A t \in Threads :
       /\ thr[t].pc = "done"
       /\ thr[t].op = "predict_cancer_risk"
       /\ thr[t].input = <<1, 0>>
       /\ thr[t].result.status = "returned"
       /\ thr[t].result.value = <<1, <<30, 70>>>>

====
